---- MODULE Spec2Model ----
(***************************************************************************)
(* Model of src/api/server.js: the EPUB image audit served by              *)
(* POST /api/validate.                                                     *)
(*                                                                         *)
(* A JavaScript string is a sequence of one-character strings, so that     *)
(* every string operation of the source (split, trim, startsWith, the      *)
(* regular expressions, the path functions) is computed one character at   *)
(* a time.                                                                 *)
(***************************************************************************)
EXTENDS Integers, Sequences, FiniteSets, TLC

VARIABLES
  cwd,    \* process.cwd(), read by path.posix.relative (server.js:47)
  call,   \* a call of resolveRef: its arguments (active: there is one)
  ret,    \* what that call returned (done: it has returned)
  req,    \* the request in flight on POST /api/validate (active: there is one)
  locals, \* the handler's options, files, contentRoot, manifestAbs,
          \* candidatesAbs and usedAbs
  res     \* the response sent for it (done: it was sent)

vars == <<cwd, call, ret, req, locals, res>>

(***************************************************************************)
(* Strings                                                                 *)
(***************************************************************************)
Empty == <<>>

Range(seq) == {seq[i] : i \in 1..Len(seq)}

StartsWith(s, p) == Len(s) >= Len(p) /\ SubSeq(s, 1, Len(p)) = p

EndsWith(s, p) == Len(s) >= Len(p) /\ SubSeq(s, Len(s) - Len(p) + 1, Len(s)) = p

UpperChars == <<"A","B","C","D","E","F","G","H","I","J","K","L","M",
                "N","O","P","Q","R","S","T","U","V","W","X","Y","Z">>

LowerChars == <<"a","b","c","d","e","f","g","h","i","j","k","l","m",
                "n","o","p","q","r","s","t","u","v","w","x","y","z">>

Letters == {UpperChars[i] : i \in 1..26} \cup {LowerChars[i] : i \in 1..26}

IsLetter(c) == c \in Letters

LowerOf == [c \in {UpperChars[i] : i \in 1..26} |->
              LowerChars[CHOOSE i \in 1..26 : UpperChars[i] = c]]

LowerChar(c) == IF c \in DOMAIN LowerOf THEN LowerOf[c] ELSE c

\* String.prototype.toLowerCase
ToLower(s) == [i \in 1..Len(s) |-> LowerChar(s[i])]

WhiteSpace == {" ", "\t", "\n"}

RECURSIVE TrimStart(_)
TrimStart(s) ==
  IF Len(s) > 0 /\ s[1] \in WhiteSpace THEN TrimStart(Tail(s)) ELSE s

RECURSIVE TrimEnd(_)
TrimEnd(s) ==
  IF Len(s) > 0 /\ s[Len(s)] \in WhiteSpace
  THEN TrimEnd(SubSeq(s, 1, Len(s) - 1))
  ELSE s

\* String.prototype.trim
Trim(s) == TrimEnd(TrimStart(s))

\* how many characters of s from position i on are in S
RECURSIVE RunIn(_, _, _)
RunIn(s, i, S) == IF i <= Len(s) /\ s[i] \in S THEN 1 + RunIn(s, i + 1, S) ELSE 0

\* how many are outside S
RECURSIVE RunOut(_, _, _)
RunOut(s, i, S) == IF i <= Len(s) /\ s[i] \notin S THEN 1 + RunOut(s, i + 1, S) ELSE 0

\* String.prototype.split(c) for a one-character separator: never empty.
RECURSIVE SplitOn(_, _)
SplitOn(s, c) ==
  LET n == RunOut(s, 1, {c})
  IN IF n = Len(s) THEN <<s>>
     ELSE <<SubSeq(s, 1, n)>> \o SplitOn(SubSeq(s, n + 2, Len(s)), c)

\* Array.prototype.join(sep)
RECURSIVE JoinWith(_, _)
JoinWith(parts, sep) ==
  IF Len(parts) = 0 THEN Empty
  ELSE IF Len(parts) = 1 THEN parts[1]
  ELSE parts[1] \o sep \o JoinWith(Tail(parts), sep)

\* s.replace(/[^/]+$/, ''): drop the trailing run of non-slash characters
RECURSIVE StripLastSegment(_)
StripLastSegment(s) ==
  IF Len(s) > 0 /\ s[Len(s)] # "/"
  THEN StripLastSegment(SubSeq(s, 1, Len(s) - 1))
  ELSE s

\* const normalize = (p) => p.replace(/\\/g, '/')
normalize(p) == [i \in 1..Len(p) |-> IF p[i] = "\\" THEN "/" ELSE p[i]]

(***************************************************************************)
(* path.posix of Node.js, as the source calls it                           *)
(***************************************************************************)
\* normalizeString: the segments left after dropping "" and ".", and
\* resolving "..": a ".." pops the last segment unless there is none or it is
\* itself "..", and is then kept only when allowAboveRoot.
RECURSIVE NormalizeSegs(_, _, _)
NormalizeSegs(segs, acc, allowAboveRoot) ==
  IF Len(segs) = 0 THEN acc
  ELSE LET seg == Head(segs)
           acc2 ==
             IF seg = Empty \/ seg = <<".">> THEN acc
             ELSE IF seg = <<".", ".">>
                  THEN IF Len(acc) > 0 /\ acc[Len(acc)] # <<".", ".">>
                       THEN SubSeq(acc, 1, Len(acc) - 1)
                       ELSE IF allowAboveRoot THEN Append(acc, seg) ELSE acc
                  ELSE Append(acc, seg)
       IN NormalizeSegs(Tail(segs), acc2, allowAboveRoot)

PosixNormalize(p) ==
  IF Len(p) = 0 THEN <<".">>
  ELSE LET isAbsolute == p[1] = "/"
           trailingSeparator == p[Len(p)] = "/"
           body == JoinWith(NormalizeSegs(SplitOn(p, "/"), <<>>, ~isAbsolute), <<"/">>)
       IN IF Len(body) = 0
          THEN IF isAbsolute THEN <<"/">>
               ELSE IF trailingSeparator THEN <<".", "/">> ELSE <<".">>
          ELSE (IF isAbsolute THEN <<"/">> ELSE Empty) \o body
               \o (IF trailingSeparator THEN <<"/">> ELSE Empty)

\* path.posix.join(a, b): the non-empty arguments joined by "/", normalized
PosixJoin(a, b) ==
  IF Len(a) = 0 /\ Len(b) = 0 THEN <<".">>
  ELSE IF Len(a) = 0 THEN PosixNormalize(b)
  ELSE IF Len(b) = 0 THEN PosixNormalize(a)
  ELSE PosixNormalize(a \o <<"/">> \o b)

\* path.posix.resolve(p): the segments of the absolute path of p, a relative
\* p being taken from the process's working directory
PosixResolveSegs(p) ==
  LET full == IF Len(p) > 0 /\ p[1] = "/" THEN p
              ELSE IF Len(p) = 0 THEN cwd
              ELSE cwd \o <<"/">> \o p
  IN NormalizeSegs(SplitOn(full, "/"), <<>>, FALSE)

RECURSIVE CommonPrefixLen(_, _)
CommonPrefixLen(a, b) ==
  IF Len(a) > 0 /\ Len(b) > 0 /\ Head(a) = Head(b)
  THEN 1 + CommonPrefixLen(Tail(a), Tail(b))
  ELSE 0

\* path.posix.relative(from, to)
PosixRelative(from, to) ==
  IF from = to THEN Empty
  ELSE LET f == PosixResolveSegs(from)
           t == PosixResolveSegs(to)
           k == CommonPrefixLen(f, t)
           ups == [i \in 1..(Len(f) - k) |-> <<".", ".">>]
       IN JoinWith(ups \o SubSeq(t, k + 1, Len(t)), <<"/">>)

\* path.posix.basename(p) of a path without trailing slash
Basename(p) == LET parts == SplitOn(p, "/") IN parts[Len(parts)]

\* const safeJoin = (...segs) => normalize(path.posix.join(...segs))
safeJoin(a, b) == normalize(PosixJoin(a, b))

(***************************************************************************)
(* The Path Resolver                                                       *)
(***************************************************************************)
stripQueryAndHash(ref) == Head(SplitOn(Head(SplitOn(ref, "#")), "?"))

HexChars == {"0","1","2","3","4","5","6","7","8","9",
             "a","b","c","d","e","f","A","B","C","D","E","F"}

\* The escapes decodeURI replaces, among those the model's references use;
\* the escape of a reserved character (%2F, %23, %3F) is left as it is.
DecodeTable == (<<"2","E">> :> ".") @@ (<<"2","e">> :> ".") @@ (<<"2","0">> :> " ")
               @@ (<<"5","C">> :> "\\") @@ (<<"5","c">> :> "\\")

\* decodeURI throws a URIError on a "%" not followed by two hex digits
MalformedEscape(s) ==
  \E i \in 1..Len(s) :
     /\ s[i] = "%"
     /\ ~(i + 2 <= Len(s) /\ s[i + 1] \in HexChars /\ s[i + 2] \in HexChars)

RECURSIVE DecodeEscapes(_)
DecodeEscapes(s) ==
  IF Len(s) = 0 THEN Empty
  ELSE IF s[1] = "%" /\ Len(s) >= 3 /\ <<s[2], s[3]>> \in DOMAIN DecodeTable
       THEN <<DecodeTable[<<s[2], s[3]>>]>> \o DecodeEscapes(SubSeq(s, 4, Len(s)))
       ELSE <<s[1]>> \o DecodeEscapes(Tail(s))

\* try { return decodeURI(ref); } catch { return ref; }
decodeRef(ref) == IF MalformedEscape(ref) THEN ref ELSE DecodeEscapes(ref)

\* the test without its i flag: lower-case schemes only
IsSchemeOrNetworkPath_caseSensitive(href) ==
  \/ StartsWith(href, <<"/", "/">>)
  \/ \E k \in 1..Len(href) :
        /\ \A i \in 1..k : href[i] \in Range(LowerChars)
        /\ StartsWith(SubSeq(href, k + 1, Len(href)), <<":", "/", "/">>)

\* /^([a-z]+:)?\/\//i.test(href)
IsSchemeOrNetworkPath(href) ==
  \/ StartsWith(href, <<"/", "/">>)
  \/ \E k \in 1..Len(href) :
        /\ \A i \in 1..k : IsLetter(href[i])
        /\ StartsWith(SubSeq(href, k + 1, Len(href)), <<":", "/", "/">>)

IsDataUri(href) == StartsWith(href, <<"d", "a", "t", "a", ":">>)

\* if (clean.startsWith('/')) clean = clean.slice(1)
DropLeadingSlash(clean) == IF StartsWith(clean, <<"/">>) THEN Tail(clean) ELSE clean

\* relToRoot.startsWith('..')
EscapesRoot(contentRoot, abs) ==
  StartsWith(PosixRelative(normalize(contentRoot), abs), <<".", ".">>)

\* resolveRef(baseFilePath, href, contentRoot): '' (Empty) is "unresolvable".
resolveRef(baseFilePath, href, contentRoot) ==
  IF href = Empty THEN Empty
  ELSE IF IsSchemeOrNetworkPath(href) \/ IsDataUri(href) THEN Empty
  ELSE LET clean == DropLeadingSlash(decodeRef(stripQueryAndHash(Trim(href))))
           baseDir == StripLastSegment(normalize(baseFilePath))
           abs == normalize(PosixNormalize(safeJoin(baseDir, clean)))
       IN IF contentRoot # Empty /\ EscapesRoot(contentRoot, abs) THEN Empty
          ELSE abs

(***************************************************************************)
(* Archive members.  The collaborators (unzipper, fast-xml-parser,         *)
(* cheerio, image-size) are modelled by what they hand to the code: a      *)
(* member's content is the parse of its bytes under each of them.          *)
(***************************************************************************)
DEFAULT_PIXEL_THRESHOLD == 5600000

s_container_xml == <<"M","E","T","A","-","I","N","F","/",
                     "c","o","n","t","a","i","n","e","r",".","x","m","l">>
s_image_slash == <<"i","m","a","g","e","/">>
s_images == <<"i","m","a","g","e","s">>

\* A member's content: wellFormed (its XML parses), rootfiles (the full-path
\* of each <rootfile>), items (the manifest's <item>s), imgSrc (the src of
\* each img[src]), srcset and style (the values of those attributes), image
\* (href and xlink:href of each <image>), styleText (the text of each <style>),
\* text (the bytes as text), dim (what imageSize returns, or that it throws).
NoDim == [throws |-> TRUE, width |-> 0, height |-> 0]

Blank == [wellFormed |-> TRUE, rootfiles |-> <<>>, items |-> <<>>, imgSrc |-> <<>>,
          srcset |-> <<>>, style |-> <<>>, image |-> <<>>, styleText |-> <<>>,
          text |-> Empty, dim |-> NoDim]

RECURSIVE IndexOfPath(_, _, _)
IndexOfPath(files, p, i) ==
  IF i > Len(files) THEN 0
  ELSE IF files[i].path = p THEN i
  ELSE IndexOfPath(files, p, i + 1)

\* Map.prototype.has / get
HasFile(files, p) == IndexOfPath(files, p, 1) # 0

GetFile(files, p) == files[IndexOfPath(files, p, 1)]

\* Map.prototype.set: a new key goes last, a known key keeps its place
SetFile(files, f) ==
  IF HasFile(files, f.path)
  THEN [files EXCEPT ![IndexOfPath(files, f.path, 1)] = f]
  ELSE Append(files, f)

\* unzipToMap(buffer): the regular files of the directory, by normalized path
RECURSIVE unzipToMap(_)
unzipToMap(entries) ==
  IF Len(entries) = 0 THEN <<>>
  ELSE LET f == entries[Len(entries)]
           before == unzipToMap(SubSeq(entries, 1, Len(entries) - 1))
       IN IF f.type # "File" THEN before
          ELSE SetFile(before, [path |-> normalize(f.path), content |-> f.content])

\* getContentRootFromContainerXml(xml)
getContentRootFromContainerXml(xml) ==
  IF ~xml.wellFormed THEN Empty
  ELSE LET fullPath == IF Len(xml.rootfiles) > 0 THEN xml.rootfiles[1] ELSE Empty
       IN IF fullPath = Empty THEN Empty
          ELSE normalize(StripLastSegment(fullPath))

\* getManifestImagesFromOpf(xml)
getManifestImagesFromOpf(xml) ==
  IF ~xml.wellFormed THEN {}
  ELSE {normalize(xml.items[i].href) :
          i \in {j \in 1..Len(xml.items) :
                   /\ StartsWith(xml.items[j].mediaType, s_image_slash)
                   /\ xml.items[j].href # Empty}}

ImageExts == {<<".","p","n","g">>, <<".","j","p","g">>, <<".","j","p","e","g">>,
              <<".","g","i","f">>}

isImageFile(p) == LET lower == ToLower(p) IN \E e \in ImageExts : EndsWith(lower, e)

inImagesFolder(p) ==
  LET segs == SplitOn(ToLower(p), "/")
  IN \E i \in 1..Len(segs) : segs[i] = s_images

Keys(files) == [i \in 1..Len(files) |-> files[i].path]

IsCandidate(p, options) ==
  isImageFile(p) /\ (options.searchAllImages \/ inImagesFolder(p))

\* the loop of listCandidateImages over the paths from the i-th on
RECURSIVE CandidatesFrom(_, _, _)
CandidatesFrom(paths, options, i) ==
  IF i > Len(paths) THEN <<>>
  ELSE (IF IsCandidate(paths[i], options) THEN <<paths[i]>> ELSE <<>>)
       \o CandidatesFrom(paths, options, i + 1)

\* listCandidateImages(files, options)
listCandidateImages(files, options) == CandidatesFrom(Keys(files), options, 1)

(***************************************************************************)
(* extractUrlsFromCss: /url\(\s*(["']?)([^)"']+)\1\s*\)/gi                 *)
(***************************************************************************)
Quotes == {"\"", "'"}

UrlStop == {")", "\"", "'"}

\* Where the match ends when, after "url(", w blanks, q quote characters
\* (0 or 1) and a run of n characters are taken: 0 when that does not match.
UrlMatchEnd(s, w, q, n) ==
  LET start == 4 + w + q + 1
      last == start + n - 1
      afterRun == IF q = 1 THEN last + 2 ELSE last + 1
      closing == afterRun + RunIn(s, afterRun, WhiteSpace)
  IN IF /\ last <= Len(s)
        /\ w <= RunIn(s, 5, WhiteSpace)
        /\ (q = 1 => s[4 + w + 1] \in Quotes)
        /\ n <= RunOut(s, start, UrlStop)
        /\ (q = 1 => last + 1 <= Len(s) /\ s[last + 1] = s[4 + w + 1])
        /\ closing <= Len(s)
        /\ s[closing] = ")"
     THEN closing
     ELSE 0

\* The regular expression's match at the start of s: the greedy quantifiers
\* take the most blanks, then the quote, then the longest run that matches.
UrlMatchAt(s) ==
  IF ~(Len(s) >= 5 /\ ToLower(SubSeq(s, 1, 4)) = <<"u","r","l","(">>)
  THEN [ok |-> FALSE, url |-> Empty, end |-> 0]
  ELSE LET tries == {t \in (0..RunIn(s, 5, WhiteSpace)) \X {0, 1}
                             \X (1..RunOut(s, 5, {")"})) :
                        UrlMatchEnd(s, t[1], t[2], t[3]) # 0}
           Before(t, u) == \/ t[1] > u[1]
                           \/ t[1] = u[1] /\ t[2] > u[2]
                           \/ t[1] = u[1] /\ t[2] = u[2] /\ t[3] >= u[3]
       IN IF tries = {} THEN [ok |-> FALSE, url |-> Empty, end |-> 0]
          ELSE LET t == CHOOSE t \in tries : \A u \in tries : Before(t, u)
                   start == 4 + t[1] + t[2] + 1
               IN [ok |-> TRUE, url |-> SubSeq(s, start, start + t[3] - 1),
                   end |-> UrlMatchEnd(s, t[1], t[2], t[3])]

RECURSIVE extractUrlsFromCss(_)
extractUrlsFromCss(cssText) ==
  IF Len(cssText) = 0 THEN <<>>
  ELSE LET m == UrlMatchAt(cssText)
       IN IF m.ok
          THEN <<m.url>> \o extractUrlsFromCss(SubSeq(cssText, m.end + 1, Len(cssText)))
          ELSE extractUrlsFromCss(Tail(cssText))

(***************************************************************************)
(* collectReferences                                                       *)
(***************************************************************************)
s_xhtml == <<".","x","h","t","m","l">>
s_html == <<".","h","t","m","l">>
s_htm == <<".","h","t","m">>
s_css == <<".","c","s","s">>
s_svg == <<".","s","v","g">>
s_opf == <<".","o","p","f">>

docExts(options) == {s_xhtml} \cup (IF options.includeHtml THEN {s_html, s_htm} ELSE {})

isDoc(p, options) ==
  LET lower == ToLower(p) IN \E e \in docExts(options) : EndsWith(lower, e)

isCss(p) == EndsWith(ToLower(p), s_css)

isSvg(p) == EndsWith(ToLower(p), s_svg)

\* part.trim().split(' ')[0] of every part of srcset.split(',')
SrcsetRefs(srcset) == {Head(SplitOn(Trim(part), " ")) : part \in Range(SplitOn(srcset, ","))}

\* $(el).attr('href') || $(el).attr('xlink:href')
ImageHref(el) == IF el.href # Empty THEN el.href ELSE el.xlinkHref

CssRefs(texts) == UNION {Range(extractUrlsFromCss(t)) : t \in Range(texts)}

\* the raw references the scan of one markup document passes to resolveRef
DocRefs(c, options) ==
  Range(c.imgSrc)
  \cup UNION {SrcsetRefs(v) : v \in Range(c.srcset)}
  \cup CssRefs(c.style)
  \cup (IF options.includeSvg THEN {ImageHref(el) : el \in Range(c.image)} ELSE {})

\* those of a stylesheet
StylesheetRefs(c) == Range(extractUrlsFromCss(c.text))

\* those of a vector document; a malformed one is skipped
SvgRefs(c) ==
  IF ~c.wellFormed THEN {}
  ELSE {ImageHref(el) : el \in Range(c.image)} \cup CssRefs(c.styleText)

\* stylesheets scanned whether or not includeCss is set
RawRefs_cssAlways(f, options) ==
  (IF isDoc(f.path, options) THEN DocRefs(f.content, options) ELSE {})
  \cup (IF isCss(f.path) THEN StylesheetRefs(f.content) ELSE {})
  \cup (IF options.includeSvg /\ isSvg(f.path) THEN SvgRefs(f.content) ELSE {})

\* the raw references of one archive member under the options
RawRefs(f, options) ==
  (IF isDoc(f.path, options) THEN DocRefs(f.content, options) ELSE {})
  \cup (IF options.includeCss /\ isCss(f.path) THEN StylesheetRefs(f.content) ELSE {})
  \cup (IF options.includeSvg /\ isSvg(f.path) THEN SvgRefs(f.content) ELSE {})

\* collectReferences({ files, contentRoot, options }): usedAbs
collectReferences(files, contentRoot, options) ==
  UNION {{resolveRef(f.path, h, contentRoot) : h \in RawRefs(f, options)} : f \in Range(files)}
  \ {Empty}

(***************************************************************************)
(* app.post('/api/validate')                                               *)
(***************************************************************************)
\* q.x === 'true'
Flag(v) == v = "true"

\* Number(q.pixelThreshold || DEFAULT_PIXEL_THRESHOLD) || DEFAULT_PIXEL_THRESHOLD,
\* the parameter being an integer, 0 when it is absent
PixelThreshold(v) == IF v = 0 THEN DEFAULT_PIXEL_THRESHOLD ELSE v

ParseOptions(q) ==
  [includeHtml |-> Flag(q.includeHtml),
   includeCss |-> Flag(q.includeCss),
   includeSvg |-> Flag(q.includeSvg),
   searchAllImages |-> Flag(q.searchAllImages),
   followOpfManifestOnly |-> Flag(q.followOpfManifestOnly),
   pixelThreshold |-> PixelThreshold(q.pixelThreshold)]

\* q.epubBasePath ? q.epubBasePath.replace(/[\\\/]$/, '') : ''
EpubBasePath(v) ==
  IF Len(v) > 0 /\ v[Len(v)] \in {"/", "\\"} THEN SubSeq(v, 1, Len(v) - 1) ELSE v

\* buildFullPath(internalPath, epubBasePath)
buildFullPath(internalPath, epubBasePath) ==
  IF epubBasePath # Empty THEN PosixJoin(epubBasePath, internalPath) ELSE internalPath

ContentRootOf(files) ==
  IF HasFile(files, s_container_xml)
  THEN getContentRootFromContainerXml(GetFile(files, s_container_xml).content)
  ELSE Empty

\* the first member under the content root whose name ends in .opf
IsOpfUnder(p, contentRoot) == StartsWith(p, contentRoot) /\ EndsWith(ToLower(p), s_opf)

\* manifestAbs (server.js:208-218)
ManifestAbs(files, contentRoot, options) ==
  IF ~(options.followOpfManifestOnly /\ contentRoot # Empty) THEN {}
  ELSE IF \A i \in 1..Len(files) : ~IsOpfUnder(files[i].path, contentRoot) THEN {}
  ELSE LET k == CHOOSE i \in 1..Len(files) :
                  /\ IsOpfUnder(files[i].path, contentRoot)
                  /\ \A j \in 1..(i - 1) : ~IsOpfUnder(files[j].path, contentRoot)
       IN {normalize(PosixJoin(normalize(contentRoot), normalize(h))) :
             h \in getManifestImagesFromOpf(files[k].content)}

\* if (options.followOpfManifestOnly && !manifestAbs.has(p)) continue;
KeepCandidate(p, manifestAbs, options) ==
  ~(options.followOpfManifestOnly /\ p \notin manifestAbs)

\* the loop over candidateList from the i-th on
RECURSIVE KeptFrom(_, _, _, _)
KeptFrom(candidateList, manifestAbs, options, i) ==
  IF i > Len(candidateList) THEN <<>>
  ELSE (IF KeepCandidate(candidateList[i], manifestAbs, options)
        THEN <<candidateList[i]>> ELSE <<>>)
       \o KeptFrom(candidateList, manifestAbs, options, i + 1)

\* candidatesAbs (server.js:220-225)
CandidatesAbs(files, manifestAbs, options) ==
  KeptFrom(listCandidateImages(files, options), manifestAbs, options, 1)

\* IMG_EXT_REGEX = /\.(png|jpe?g|gif)$/i
IMG_EXT_REGEX(p) == isImageFile(p)

\* candidates matched against the used-set by file name, not by path
IsUnreferenced_byName(abs, usedAbs) ==
  Basename(abs) \notin {Basename(u) : u \in usedAbs}

IsUnreferenced(abs, usedAbs) == abs \notin usedAbs

\* the comparison with > for >=
IsOversized_strict(dim, pixelThreshold) ==
  /\ ~dim.throws
  /\ dim.width # 0
  /\ dim.height # 0
  /\ dim.width * dim.height > pixelThreshold

\* dim?.width && dim?.height && (dim.width * dim.height >= options.pixelThreshold),
\* a throw of imageSize being swallowed by the empty catch
IsOversized(dim, pixelThreshold) ==
  /\ ~dim.throws
  /\ dim.width # 0
  /\ dim.height # 0
  /\ dim.width * dim.height >= pixelThreshold

UnreferencedEntry(abs, epubBasePath) ==
  [file |-> Basename(abs), internalPath |-> abs,
   fullPath |-> buildFullPath(abs, epubBasePath)]

OversizedEntry(abs, dim, epubBasePath) ==
  [file |-> Basename(abs), internalPath |-> abs,
   fullPath |-> buildFullPath(abs, epubBasePath),
   width |-> dim.width, height |-> dim.height, px |-> dim.width * dim.height]

\* the loop over candidatesAbs (server.js:232-252)
RECURSIVE Unreferenced(_, _, _)
Unreferenced(candidatesAbs, usedAbs, epubBasePath) ==
  IF Len(candidatesAbs) = 0 THEN <<>>
  ELSE (IF IsUnreferenced(Head(candidatesAbs), usedAbs)
        THEN <<UnreferencedEntry(Head(candidatesAbs), epubBasePath)>>
        ELSE <<>>)
       \o Unreferenced(Tail(candidatesAbs), usedAbs, epubBasePath)

\* the try around the loop instead of inside it: a throw of imageSize ends it
RECURSIVE Oversized_abortOnThrow(_, _, _, _)
Oversized_abortOnThrow(candidatesAbs, files, pixelThreshold, epubBasePath) ==
  IF Len(candidatesAbs) = 0 THEN <<>>
  ELSE LET abs == Head(candidatesAbs)
           dim == GetFile(files, abs).content.dim
       IN IF IMG_EXT_REGEX(abs) /\ dim.throws THEN <<>>
          ELSE (IF IMG_EXT_REGEX(abs) /\ IsOversized(dim, pixelThreshold)
                THEN <<OversizedEntry(abs, dim, epubBasePath)>>
                ELSE <<>>)
               \o Oversized_abortOnThrow(Tail(candidatesAbs), files, pixelThreshold,
                                         epubBasePath)

RECURSIVE Oversized(_, _, _, _)
Oversized(candidatesAbs, files, pixelThreshold, epubBasePath) ==
  IF Len(candidatesAbs) = 0 THEN <<>>
  ELSE LET abs == Head(candidatesAbs)
           dim == GetFile(files, abs).content.dim
       IN (IF IMG_EXT_REGEX(abs) /\ IsOversized(dim, pixelThreshold)
           THEN <<OversizedEntry(abs, dim, epubBasePath)>>
           ELSE <<>>)
          \o Oversized(Tail(candidatesAbs), files, pixelThreshold, epubBasePath)

\* The handler's locals when it runs to the end on request r
LocalsOf(r) ==
  LET options == ParseOptions(r.query)
      files == unzipToMap(r.entries)
      contentRoot == ContentRootOf(files)
      manifestAbs == ManifestAbs(files, contentRoot, options)
  IN [options |-> options,
      files |-> files,
      contentRoot |-> contentRoot,
      manifestAbs |-> manifestAbs,
      candidatesAbs |-> CandidatesAbs(files, manifestAbs, options),
      usedAbs |-> collectReferences(files, contentRoot, options)]

\* the locals before the handler has run
NoLocals ==
  [options |-> ParseOptions([includeHtml |-> "false", includeCss |-> "false",
                             includeSvg |-> "false", searchAllImages |-> "false",
                             followOpfManifestOnly |-> "false", pixelThreshold |-> 0]),
   files |-> <<>>, contentRoot |-> Empty, manifestAbs |-> {}, candidatesAbs |-> <<>>,
   usedAbs |-> {}]

ErrorResponse(status) ==
  [done |-> TRUE, status |-> status, unreferenced |-> <<>>, oversized |-> <<>>,
   contentRoot |-> Empty, epubBasePath |-> Empty]

\* The response of a run on request r that computed the locals l.  The
\* report text, which only formats the two lists, is left out.
ResponseFrom(r, l) ==
  LET epubBasePath == EpubBasePath(r.query.epubBasePath)
  IN [done |-> TRUE, status |-> 200,
      unreferenced |-> Unreferenced(l.candidatesAbs, l.usedAbs, epubBasePath),
      oversized |-> Oversized(l.candidatesAbs, l.files, l.options.pixelThreshold,
                              epubBasePath),
      contentRoot |-> l.contentRoot,
      epubBasePath |-> epubBasePath]

\* The response to request r
ResponseOf(r) ==
  IF ~r.hasFile THEN ErrorResponse(400)
  ELSE IF r.corrupt THEN ErrorResponse(500)
  ELSE ResponseFrom(r, LocalsOf(r))

Validate ==
  /\ req.active
  /\ ~res.done
  /\ locals' = IF req.hasFile /\ ~req.corrupt THEN LocalsOf(req) ELSE NoLocals
  /\ res' = IF ~req.hasFile THEN ErrorResponse(400)
            ELSE IF req.corrupt THEN ErrorResponse(500)
            ELSE ResponseFrom(req, locals')
  /\ UNCHANGED <<cwd, call, ret, req>>

(***************************************************************************)
(* The requests: archives of one layout, varied in their container         *)
(* descriptor, package document, references and image dimensions.          *)
(***************************************************************************)
MaxRefs == 2
MaxDim == 3

p_images_dir == <<"O","E","B","P","S","/","i","m","a","g","e","s","/">>
p_opf == <<"O","E","B","P","S","/","c",".","o","p","f">>
p_xhtml == <<"O","E","B","P","S","/","i",".","x","h","t","m","l">>
p_html == <<"O","E","B","P","S","/","t","/","p",".","h","t","m","l">>
p_css == <<"O","E","B","P","S","/","t","/","s",".","c","s","s">>
p_svg == <<"O","E","B","P","S","/","t","/","v",".","s","v","g">>
p_a == <<"O","E","B","P","S","/","i","m","a","g","e","s","/","a",".","p","n","g">>
p_b == <<"O","E","B","P","S","/","I","m","a","g","e","s","/","b",".","J","P","G">>
p_c == <<"O","E","B","P","S","/","c",".","g","i","f">>

RECURSIVE SetToSeq(_)
SetToSeq(S) ==
  IF S = {} THEN <<>>
  ELSE LET x == CHOOSE x \in S : TRUE IN <<x>> \o SetToSeq(S \ {x})

\* the references a document in OEBPS/ and one in OEBPS/t/ may carry
RefsFromRoot == {<<"i","m","a","g","e","s","/","a",".","p","n","g">>, <<"I","m","a","g","e","s","/","b",".","J","P","G","?","v","#","f">>, <<"c",".","g","i","f">>}

RefsFromSub == {<<".",".","/","i","m","a","g","e","s","/","a",".","p","n","g">>, <<"/","I","m","a","g","e","s","/","b",".","J","P","G">>, <<".",".","/","c",".","g","i","f">>}

\* A placement puts one reference into one member, in one syntax.
Placements ==
  [file : {"xhtml"}, kind : {"src"}, ref : RefsFromRoot]
  \cup [file : {"xhtml"}, kind : {"srcset"}, ref : {<<"i","m","a","g","e","s","/","a",".","p","n","g">>}]
  \cup [file : {"xhtml"}, kind : {"style"}, ref : {<<"I","m","a","g","e","s","/","b",".","J","P","G","?","v","#","f">>}]
  \cup [file : {"xhtml"}, kind : {"image"}, ref : {<<"c",".","g","i","f">>}]
  \cup [file : {"html"}, kind : {"src"}, ref : {<<".",".","/","c",".","g","i","f">>}]
  \cup [file : {"css"}, kind : {"url"}, ref : RefsFromSub]
  \cup [file : {"svg"}, kind : {"image"}, ref : {<<".",".","/","i","m","a","g","e","s","/","a",".","p","n","g">>}]
  \cup [file : {"svg"}, kind : {"style"}, ref : {<<".",".","/","c",".","g","i","f">>}]

RefsAt(P, file, kind) == SetToSeq({pl.ref : pl \in {q \in P : q.file = file /\ q.kind = kind}})

\* srcset="ref 2x, ref 2x"
SrcsetOf(refs) ==
  IF Len(refs) = 0 THEN <<>>
  ELSE <<JoinWith([i \in 1..Len(refs) |-> refs[i] \o <<" ","2","x">>], <<","," ">>)>>

\* style="b:url(ref)"
StyleOf(refs) == [i \in 1..Len(refs) |-> <<"b",":","u","r","l","(">> \o refs[i] \o <<")">>]

\* a{b:url('ref')}
RuleOf(ref) == <<"a","{","b",":","U","R","L","("," ","'">> \o ref \o <<"'"," ",")","}">>

TextOf(refs) == JoinWith([i \in 1..Len(refs) |-> RuleOf(refs[i])], Empty)

MarkupContent(P, file) ==
  [Blank EXCEPT
     !.imgSrc = RefsAt(P, file, "src"),
     !.srcset = SrcsetOf(RefsAt(P, file, "srcset")),
     !.style = StyleOf(RefsAt(P, file, "style")),
     !.image = LET r == RefsAt(P, file, "image")
               IN [i \in 1..Len(r) |-> [href |-> Empty, xlinkHref |-> r[i]]]]

CssContent(P) == [Blank EXCEPT !.text = TextOf(RefsAt(P, "css", "url"))]

SvgContent(P, wellFormed) ==
  [Blank EXCEPT
     !.wellFormed = wellFormed,
     !.image = LET r == RefsAt(P, "svg", "image")
               IN [i \in 1..Len(r) |-> [href |-> r[i], xlinkHref |-> Empty]],
     !.styleText = LET r == RefsAt(P, "svg", "style")
                   IN [i \in 1..Len(r) |-> RuleOf(r[i])]]

ContainerVariants == {"absent", "good", "rootLevel", "malformed", "noRootfile"}

ContainerContent(v) ==
  [Blank EXCEPT
     !.wellFormed = v # "malformed",
     !.rootfiles = IF v = "good" THEN <<p_opf, <<"x","/","y",".","o","p","f">>>>
                   ELSE IF v = "rootLevel" THEN <<<<"c",".","o","p","f">>>>
                   ELSE <<>>]

OpfVariants == {"absent", "declaresA", "declaresNoImage", "malformed"}

OpfContent(v) ==
  [Blank EXCEPT
     !.wellFormed = v # "malformed",
     !.items = IF v = "declaresA"
               THEN <<[mediaType |-> <<"t","e","x","t","/","c","s","s">>, href |-> <<"t","/","s",".","c","s","s">>],
                      [mediaType |-> <<"i","m","a","g","e","/","p","n","g">>, href |-> <<"i","m","a","g","e","s","/","a",".","p","n","g">>]>>
               ELSE <<[mediaType |-> <<"t","e","x","t","/","c","s","s">>, href |-> <<"t","/","s",".","c","s","s">>]>>]

File(path, content) == [type |-> "File", path |-> path, content |-> content]

Image(path, dim) == File(path, [Blank EXCEPT !.dim = dim])

\* The archive's entries, in member order.
Archive(container, opf, P, svgOk, dimA, dimB, dimC) ==
  <<[type |-> "Directory", path |-> p_images_dir, content |-> Blank]>>
  \o (IF container = "absent" THEN <<>>
      ELSE <<File(s_container_xml, ContainerContent(container))>>)
  \o (IF opf = "absent" THEN <<>> ELSE <<File(p_opf, OpfContent(opf))>>)
  \o <<File(p_xhtml, MarkupContent(P, "xhtml")),
       Image(p_a, dimA),
       File(p_html, MarkupContent(P, "html")),
       File(p_css, CssContent(P)),
       Image(p_b, dimB),
       File(p_svg, SvgContent(P, svgOk)),
       Image(p_c, dimC)>>

Dim(w, h) == [throws |-> FALSE, width |-> w, height |-> h]

FlagValues == {"true", "false"}

Query(html, css, svg, all, follow, threshold, base) ==
  [includeHtml |-> html, includeCss |-> css, includeSvg |-> svg,
   searchAllImages |-> all, followOpfManifestOnly |-> follow,
   pixelThreshold |-> threshold, epubBasePath |-> base]

Request(entries, query) ==
  [active |-> TRUE, hasFile |-> TRUE, corrupt |-> FALSE, entries |-> entries,
   query |-> query]

\* the sets of at most n placements
RECURSIVE PlacementSets(_)
PlacementSets(n) ==
  IF n = 0 THEN {{}}
  ELSE LET smaller == PlacementSets(n - 1)
       IN smaller \cup {P \cup {pl} : P \in smaller, pl \in Placements}

\* requests that vary the references and the scanning options
ReferenceRequests ==
  {Request(Archive("good", "declaresA", P, svgOk, Dim(1, 1), NoDim, Dim(1, 1)),
           Query(html, css, svg, "true", "false", 0, Empty)) :
     P \in PlacementSets(MaxRefs), svgOk \in {TRUE},
     html \in FlagValues, css \in FlagValues, svg \in FlagValues}
  \cup
  {Request(Archive("good", "declaresA", P, FALSE, Dim(1, 1), NoDim, Dim(1, 1)),
           Query("false", "false", "true", "true", "false", 0, Empty)) :
     P \in PlacementSets(1)}

\* requests that vary the container descriptor and the package document
ManifestRequests ==
  {Request(Archive(container, opf, P, TRUE, Dim(1, 1), Dim(1, 1), NoDim),
           Query("false", "false", "false", all, follow, 0, base)) :
     container \in ContainerVariants, opf \in OpfVariants,
     P \in {{}, {[file |-> "xhtml", kind |-> "src", ref |-> <<"i","m","a","g","e","s","/","a",".","p","n","g">>]}},
     all \in FlagValues, follow \in FlagValues, base \in {Empty, <<"/","b","/">>}}

SmallDims == {NoDim} \cup {Dim(w, h) : w \in 0..MaxDim, h \in 0..MaxDim}

BigDims == {Dim(2800, 2000), Dim(5599999, 1), Dim(3000, 2000)}

\* requests that vary what imageSize returns and the threshold
ProbeRequests ==
  {Request(Archive("good", "absent", P, TRUE, dimA, dimB, NoDim),
           Query("false", "false", "false", "false", "false", threshold, Empty)) :
     P \in {{}, {[file |-> "xhtml", kind |-> "src", ref |-> <<"i","m","a","g","e","s","/","a",".","p","n","g">>]}},
     dimA \in SmallDims, dimB \in {NoDim, Dim(MaxDim, MaxDim)},
     threshold \in (-1)..(MaxDim * MaxDim)}
  \cup
  {Request(Archive("good", "absent", {}, TRUE, dimA, dimB, NoDim),
           Query("false", "false", "false", "false", "false", 0, Empty)) :
     dimA \in BigDims, dimB \in BigDims \cup {NoDim}}

\* a request without the file field, and one whose archive cannot be opened
FailingRequests ==
  {[Request(<<>>, Query("false", "false", "false", "false", "false", 0, Empty))
      EXCEPT !.hasFile = FALSE],
   [Request(<<>>, Query("false", "false", "false", "false", "false", 0, Empty))
      EXCEPT !.corrupt = TRUE]}

Requests == ReferenceRequests \cup ManifestRequests \cup ProbeRequests \cup FailingRequests

(***************************************************************************)
(* Calls of resolveRef on references built from a prefix, up to MaxSegs    *)
(* path segments and a suffix.                                             *)
(***************************************************************************)
MaxSegs == 3

s_OEBPS == <<"O","E","B","P","S">>
s_a_png == <<"a",".","p","n","g">>
s_i_xhtml == <<"i",".","x","h","t","m","l">>
s_s_css == <<"s",".","c","s","s">>
s_t == <<"t">>
s_http == <<"h","t","t","p",":","/","/">>
s_HTTPS == <<"H","T","T","P","S",":","/","/">>
s_data == <<"d","a","t","a",":">>

RefSegs == {<<".", ".">>, <<".">>, s_OEBPS, s_a_png}

RECURSIVE SegPaths(_)
SegPaths(n) ==
  IF n = 0 THEN {<<>>}
  ELSE SegPaths(n - 1)
       \cup {Append(p, g) : p \in {q \in SegPaths(n - 1) : Len(q) = n - 1}, g \in RefSegs}

RefPrefixes == {Empty, <<"/">>, <<"/", "/">>, s_http, s_HTTPS, s_data, <<" ">>,
                <<"%","2","E","%","2","E","/">>, <<".",".","\\">>}

RefSuffixes == {Empty, <<"#","f">>, <<"?","q">>}

Hrefs == {pre \o JoinWith(p, <<"/">>) \o suf :
             pre \in RefPrefixes, p \in SegPaths(MaxSegs), suf \in RefSuffixes}

\* the referencing documents: at the archive root, in the content root, below it
BasePaths == {s_i_xhtml,
              s_OEBPS \o <<"/">> \o s_i_xhtml,
              s_OEBPS \o <<"/">> \o s_t \o <<"/">> \o s_s_css}

ContentRoots == {Empty, s_OEBPS \o <<"/">>}

\* working directories of the server process
Cwds == {<<"/">>, <<"/", "s", "r", "v">>}

NoCall == [active |-> FALSE, baseFilePath |-> Empty, href |-> Empty, contentRoot |-> Empty]
NoRet == [done |-> FALSE, value |-> Empty]
NoReq == [Request(<<>>, Query("false", "false", "false", "false", "false", 0, Empty))
           EXCEPT !.active = FALSE]
NoRes == [ErrorResponse(0) EXCEPT !.done = FALSE]

InitResolve ==
  /\ locals = NoLocals
  /\ cwd \in Cwds
  /\ \E b \in BasePaths, h \in Hrefs, r \in ContentRoots :
        call = [active |-> TRUE, baseFilePath |-> b, href |-> h, contentRoot |-> r]
  /\ ret = NoRet
  /\ req = NoReq
  /\ res = NoRes

Resolve ==
  /\ call.active
  /\ ~ret.done
  /\ ret' = [done |-> TRUE,
             value |-> resolveRef(call.baseFilePath, call.href, call.contentRoot)]
  /\ UNCHANGED <<cwd, call, req, locals, res>>

NextResolve == Resolve

SpecResolve == InitResolve /\ [][NextResolve]_vars

\* The server has started in one of the working directories and a request
\* has arrived; the requests that vary the references are taken under one.
Init ==
  /\ \/ cwd \in Cwds /\ req \in Requests \ ReferenceRequests
     \/ cwd = <<"/", "s", "r", "v">> /\ req \in ReferenceRequests
  /\ call = NoCall
  /\ ret = NoRet
  /\ locals = NoLocals
  /\ res = NoRes

Next == Validate

Spec == Init /\ [][Next]_vars

(***************************************************************************)
(* Properties of resolveRef, checked under SpecResolve                     *)
(***************************************************************************)
Segments(p) == Range(SplitOn(p, "/"))

\* p is the root directory itself or lies below it
UnderRoot(p, root) == StartsWith(p, root) \/ p \o <<"/">> = root

\* C3: under a non-empty root, every path resolveRef returns lies inside the
\* root (is prefixed by it); a reference that resolves outside the root is
\* answered with the empty string.
C3_RootContainment ==
  (ret.done /\ call.contentRoot # Empty /\ ret.value # Empty)
    => UnderRoot(ret.value, call.contentRoot)

\* C4: a reference that begins with "/" is archive-root-relative: what it
\* resolves to does not depend on the directory of the referencing document.
C4_RootRelativeIgnoresBase ==
  (ret.done /\ StartsWith(call.href, <<"/">>))
    => \A b \in BasePaths : resolveRef(b, call.href, call.contentRoot) = ret.value

\* C5: the empty reference and a reference that is only a fragment are
\* unresolvable, for every base path and every root.
C5_EmptyAndFragmentUnresolvable ==
  (ret.done /\ (call.href = Empty \/ StartsWith(call.href, <<"#">>)))
    => ret.value = Empty

\* a reference that starts with letters followed by "://"
AbsoluteUrl(href) ==
  \E k \in 1..Len(href) :
     /\ \A i \in 1..k : href[i] \in Letters
     /\ k + 3 <= Len(href)
     /\ SubSeq(href, k + 1, k + 3) = <<":", "/", "/">>

DataUri(href) == Len(href) >= 5 /\ SubSeq(href, 1, 5) = <<"d","a","t","a",":">>

C7_NoDotSegments ==
  (ret.done /\ ret.value # Empty)
    => Segments(ret.value) \cap {<<".">>, <<".", ".">>} = {}

(***************************************************************************)
(* Properties of POST /api/validate, checked under Spec                    *)
(***************************************************************************)
Answered == res.done /\ res.status = 200

Files == locals.files

Options == locals.options

InternalPaths(list) == {list[i].internalPath : i \in 1..Len(list)}

Candidates == Range(locals.candidatesAbs)

\* what the references of the members scanned under the options resolve to
ScannedTargets ==
  UNION {{resolveRef(f.path, h, locals.contentRoot) : h \in RawRefs(f, Options)} :
           f \in Range(Files)}

\* C1: a candidate is in unreferenced if and only if no scanned document holds
\* a reference that resolveRef resolves to the candidate's path; unreferenced
\* holds candidates only.
C1_UnreferencedExact ==
  Answered =>
    /\ InternalPaths(res.unreferenced) \subseteq Candidates
    /\ \A c \in Candidates :
         c \in InternalPaths(res.unreferenced) <=> c \notin ScannedTargets

C1_Witness ==
  /\ Answered
  /\ \E c \in Candidates : c \in InternalPaths(res.unreferenced)
  /\ \E c \in Candidates : c \in ScannedTargets /\ c \notin InternalPaths(res.unreferenced)

\* C2: with followOpfManifestOnly set and an empty manifest-image set, the
\* candidate list is the one produced with followOpfManifestOnly unset.
C2_EmptyManifestKeepsCandidates ==
  (Answered /\ Options.followOpfManifestOnly /\ locals.manifestAbs = {})
    => locals.candidatesAbs
         = LocalsOf([req EXCEPT !.query.followOpfManifestOnly = "false"]).candidatesAbs

DimOf(c) == GetFile(Files, c).content.dim

\* imageSize returned a width and a height
Probed(c) == ~DimOf(c).throws /\ DimOf(c).width > 0 /\ DimOf(c).height > 0

Area(c) == DimOf(c).width * DimOf(c).height

\* C8: a probed candidate is in oversized if and only if its pixel area is at
\* least pixelThreshold (in at the threshold, out one pixel below), whether or
\* not it is referenced: unreferenced is decided by the used-set alone.
C8_ThresholdBoundary ==
  Answered =>
    \A c \in Candidates :
      /\ Probed(c) =>
           (c \in InternalPaths(res.oversized) <=> Area(c) >= Options.pixelThreshold)
      /\ c \in InternalPaths(res.unreferenced) <=> c \notin locals.usedAbs

C8_Witness ==
  /\ Answered
  /\ \E c \in Candidates :
       /\ Probed(c)
       /\ Area(c) = Options.pixelThreshold
       /\ c \in InternalPaths(res.oversized)
       /\ c \in locals.usedAbs
       /\ c \notin InternalPaths(res.unreferenced)

\* request req with the dimensions of member c replaced by d
WithDim(c, d) ==
  [req EXCEPT !.entries =
     [i \in 1..Len(req.entries) |->
        IF normalize(req.entries[i].path) = c
        THEN [req.entries[i] EXCEPT !.content.dim = d]
        ELSE req.entries[i]]]

RECURSIVE WithoutPath(_, _)
WithoutPath(list, c) ==
  IF Len(list) = 0 THEN <<>>
  ELSE (IF Head(list).internalPath = c THEN <<>> ELSE <<Head(list)>>)
       \o WithoutPath(Tail(list), c)

\* C9: when imageSize fails on a candidate the run still answers in full; the
\* candidate is left out of oversized, is in unreferenced exactly when it is
\* absent from the used-set, and every other candidate is classified as it is
\* when the probe of that candidate succeeds.
C9_ProbeFailureNonFatal ==
  (res.done /\ req.hasFile /\ ~req.corrupt) =>
    /\ res.status = 200
    /\ \A c \in {x \in Candidates : DimOf(x).throws} :
         /\ c \notin InternalPaths(res.oversized)
         /\ c \in InternalPaths(res.unreferenced) <=> c \notin locals.usedAbs
         /\ LET other == ResponseOf(WithDim(c, Dim(MaxDim, MaxDim)))
            IN /\ other.unreferenced = res.unreferenced
               /\ WithoutPath(other.oversized, c) = res.oversized

C9_Witness ==
  /\ Answered
  /\ \E c \in Candidates, d \in Candidates :
       /\ DimOf(c).throws
       /\ c \in InternalPaths(res.unreferenced)
       /\ d # c
       /\ d \in InternalPaths(res.oversized)

CssFiles == {f \in Range(Files) : isCss(f.path)}

\* what the url() references of the .css members resolve to
CssTargets ==
  UNION {{resolveRef(f.path, u, locals.contentRoot) :
            u \in Range(extractUrlsFromCss(f.content.text))} : f \in CssFiles} \ {Empty}

\* what the references of the other members resolve to under the options
OtherTargets ==
  UNION {{resolveRef(f.path, h, locals.contentRoot) : h \in RawRefs(f, Options)} :
           f \in Range(Files) \ CssFiles} \ {Empty}

\* the requests that differ from req in one scanning flag, turned on
MoreScanning ==
  {[req EXCEPT !.query.includeHtml = "true"],
   [req EXCEPT !.query.includeCss = "true"],
   [req EXCEPT !.query.includeSvg = "true"]}

\* C10: the url() references of stylesheets are in the used-set exactly when
\* includeCss is set, so a candidate referenced from a .css member only is in
\* unreferenced without includeCss and not with it; and turning on
\* includeHtml, includeCss or includeSvg only enlarges the used-set and never
\* adds an entry to unreferenced.
C10_IncludeCssAndMonotone ==
  Answered =>
    /\ locals.usedAbs = OtherTargets \cup (IF Options.includeCss THEN CssTargets ELSE {})
    /\ \A c \in Candidates \cap (CssTargets \ OtherTargets) :
         c \in InternalPaths(res.unreferenced) <=> ~Options.includeCss
    /\ \A r \in MoreScanning \ {req} :
         LET l == LocalsOf(r)
         IN /\ locals.usedAbs \subseteq l.usedAbs
            /\ InternalPaths(ResponseFrom(r, l).unreferenced)
                 \subseteq InternalPaths(res.unreferenced)

C10_Witness ==
  /\ Answered
  /\ Options.includeCss
  /\ \E c \in Candidates \cap (CssTargets \ OtherTargets) :
       /\ c \notin InternalPaths(res.unreferenced)
       /\ c \in InternalPaths(
                 ResponseOf([req EXCEPT !.query.includeCss = "false"]).unreferenced)

====
